---- MODULE Spec2Model ----
(***************************************************************************)
(* aslap ("as slow as possible"): copies runes from a reader to a writer,  *)
(* sleeping after every rune for a time derived from the low bits of the   *)
(* rune.  Model of src/main.go: main, bePatient, printImpatiently,         *)
(* copyRunesWithPatience and makeFlush, together with the behaviour of the *)
(* library calls they make (bufio.Scanner with bufio.ScanRunes,            *)
(* utf8.DecodeRune, io.Reader, io.Writer).                                 *)
(*                                                                         *)
(* Durations are integer nanoseconds (time.Duration).  The parameter       *)
(* values of the model keep every duration far below the int64 range, so   *)
(* Duration arithmetic never wraps here.                                   *)
(***************************************************************************)
EXTENDS Integers, Sequences, FiniteSets

VARIABLES
    entry,      \* "main": a run of the program; "copy": a call of copyRunesWithPatience
    bits,       \* *bits
    initial,    \* *initial (flag "base")
    step,       \* *step
    debug,      \* *debug: the delay function is wrapped by printImpatiently
    dst,        \* the io.Writer handed to copyRunesWithPatience
    input,      \* every byte the reader src will deliver
    chunk,      \* the most bytes one Read of src delivers
    rd,         \* number of bytes of input the reader has delivered
    okBytes,    \* history: bytes delivered by the reads that returned a nil error
    failedReads,\* history: number of reads that returned a non-nil error
    flushFailed,\* history: some call of the flush action met an error
    buf,        \* scanner: s.buf[s.start:s.end]
    serr,       \* scanner: s.err ("nil" when unset), the error src ended with
    flush,      \* the flush action bound by makeFlush ("unbound" before)
    bs,         \* copyRunesWithPatience: bs
    r,          \* copyRunesWithPatience: r
    size,       \* copyRunesWithPatience: size
    delay,      \* copyRunesWithPatience: delay
    pc,         \* position in the program
    events,     \* history: the delay calls, debug records, writes, flushes and sleeps, in order
    result,     \* the error returned by copyRunesWithPatience ("none" before it returns)
    exit        \* exit status of the process (-1 while it has not exited)

vars == <<entry, bits, initial, step, debug, dst, input, chunk, rd, okBytes,
          failedReads, flushFailed, buf, serr, flush, bs, r, size, delay, pc,
          events, result, exit>>

(***************************************************************************)
(* Bounds of the model.                                                    *)
(***************************************************************************)
MaxBits == 9
MaxLen == 4
MaxCalls == 2

(***************************************************************************)
(* Program and library constants.                                          *)
(***************************************************************************)
BitsLimit == 8
RuneError == 65533
RuneSelf == 128
PanicStatus == 2

\* []byte(string(utf8.RuneError)), the token bufio.ScanRunes returns for a
\* byte that is not the start of a valid encoding
errorRune == <<239, 191, 189>>

Min(a, b) == IF a < b THEN a ELSE b

RECURSIVE Pow2(_)
Pow2(n) == IF n = 0 THEN 1 ELSE 2 * Pow2(n - 1)

\* a & b on non-negative integers, bit by bit
RECURSIVE BitAnd(_, _)
BitAnd(a, b) ==
    IF a = 0 \/ b = 0 THEN 0
    ELSE (a % 2) * (b % 2) + 2 * BitAnd(a \div 2, b \div 2)

Drop(s, n) == SubSeq(s, n + 1, Len(s))
Take(s, n) == SubSeq(s, 1, n)

RECURSIVE Flatten(_)
Flatten(ss) == IF ss = <<>> THEN <<>> ELSE Head(ss) \o Flatten(Tail(ss))

(***************************************************************************)
(* unicode/utf8, as used through utf8.DecodeRune (main.go:74) and through  *)
(* bufio.ScanRunes (main.go:69).  Bytes are integers 0..255.               *)
(***************************************************************************)
locb == 128
hicb == 191

\* first[p0] & 7: the length of the encoding that starts with p0
\* (1 for ASCII and for a byte that cannot start an encoding)
SeqLen(p0) ==
    IF p0 < RuneSelf THEN 1
    ELSE IF p0 >= 194 /\ p0 <= 223 THEN 2
    ELSE IF p0 >= 224 /\ p0 <= 239 THEN 3
    ELSE IF p0 >= 240 /\ p0 <= 244 THEN 4
    ELSE 1

\* whether p0 can start a multi-byte encoding (first[p0] < as)
IsLead(p0) == p0 >= 194 /\ p0 <= 244

\* acceptRanges[first[p0] >> 4]: the range allowed for the second byte
AcceptLo(p0) ==
    IF p0 = 224 THEN 160
    ELSE IF p0 = 240 THEN 144
    ELSE locb

AcceptHi(p0) ==
    IF p0 = 237 THEN 159
    ELSE IF p0 = 244 THEN 143
    ELSE hicb

IsCont(b) == b >= locb /\ b <= hicb

\* utf8.DecodeRune(p) = <<r, size>>
DecodeRune(p) ==
    IF Len(p) < 1 THEN <<RuneError, 0>>
    ELSE LET p0 == p[1] IN
      IF p0 < RuneSelf THEN <<p0, 1>>
      ELSE IF ~IsLead(p0) THEN <<RuneError, 1>>
      ELSE LET sz == SeqLen(p0) IN
        IF Len(p) < sz THEN <<RuneError, 1>>
        ELSE IF p[2] < AcceptLo(p0) \/ AcceptHi(p0) < p[2] THEN <<RuneError, 1>>
        ELSE IF sz <= 2 THEN <<(p0 % 32) * 64 + (p[2] % 64), 2>>
        ELSE IF ~IsCont(p[3]) THEN <<RuneError, 1>>
        ELSE IF sz <= 3
             THEN <<(p0 % 16) * 4096 + (p[2] % 64) * 64 + (p[3] % 64), 3>>
        ELSE IF ~IsCont(p[4]) THEN <<RuneError, 1>>
        ELSE <<(p0 % 8) * 262144 + (p[2] % 64) * 4096
               + (p[3] % 64) * 64 + (p[4] % 64), 4>>

\* utf8.FullRune(p): p begins with a full encoding (an invalid one counts as
\* a full encoding of width 1)
FullRune(p) ==
    IF Len(p) = 0 THEN FALSE
    ELSE LET p0 == p[1] IN
      IF Len(p) >= SeqLen(p0) THEN TRUE
      ELSE IF Len(p) > 1 /\ (p[2] < AcceptLo(p0) \/ AcceptHi(p0) < p[2]) THEN TRUE
      ELSE IF Len(p) > 2 /\ ~IsCont(p[3]) THEN TRUE
      ELSE FALSE

\* bufio.ScanBytes in the place of bufio.ScanRunes
ScanBytes(data, atEOF) ==
    IF atEOF /\ Len(data) = 0 THEN [advance |-> 0, token |-> <<>>]
    ELSE [advance |-> 1, token |-> Take(data, 1)]

\* bufio.ScanRunes(data, atEOF) = [advance, token]; token <<>> stands for nil
\* (a request for more data).  The split function never returns an error.
ScanRunes(data, atEOF) ==
    IF atEOF /\ Len(data) = 0 THEN [advance |-> 0, token |-> <<>>]
    ELSE IF data[1] < RuneSelf THEN [advance |-> 1, token |-> Take(data, 1)]
    ELSE LET width == DecodeRune(data)[2] IN
      IF width > 1 THEN [advance |-> width, token |-> Take(data, width)]
      ELSE IF ~atEOF /\ ~FullRune(data) THEN [advance |-> 0, token |-> <<>>]
      ELSE [advance |-> 1, token |-> errorRune]

(***************************************************************************)
(* The writers a run can hand to copyRunesWithPatience, by their method    *)
(* sets.  main passes os.Stdout (an *os.File) or ioutil.Discard.           *)
(***************************************************************************)
Writers == {"os.File", "bufio.Writer", "http.ResponseWriter", "ioutil.Discard"}

\* "Flush" is Flush(), "FlushErr" is Flush() error, "Sync" is Sync() error
Methods(w) ==
    CASE w = "os.File" -> {"Write", "Sync"}
      [] w = "bufio.Writer" -> {"Write", "FlushErr"}
      [] w = "http.ResponseWriter" -> {"Write", "Flush"}
      [] OTHER -> {"Write"}

\* ioutil.Discard.Write always returns a nil error
WriteCanFail(w) == w # "ioutil.Discard"

\* makeFlush(w): the flush action bound for w
MakeFlush(w) ==
    IF "Flush" \in Methods(w) THEN "Flush"
    ELSE IF "FlushErr" \in Methods(w) THEN "FlushErr"
    ELSE IF "Sync" \in Methods(w) THEN "Sync"
    ELSE "noop"

\* the outcomes the call behind a flush action can have
FlushOutcomes(f) == IF f \in {"FlushErr", "Sync"} THEN {"nil", "FlushFailed"} ELSE {"nil"}

(***************************************************************************)
(* The delay functions.                                                    *)
(***************************************************************************)
\* (0x1 << bits) - 1
Mask(n) == Pow2(n) - 1

\* the check of bePatient off by one
BePatientPanicsAbove(n) == n > BitsLimit

\* bePatient: whether construction panics
BePatientPanics(n) == n >= BitsLimit

\* the delay function without the mask
BePatientUnmasked(n, init, stp, b) == init + stp * b

\* the function bePatient(n, init, stp) returns, applied to the rune b
BePatient(n, init, stp, b) == init + stp * BitAnd(Mask(n), b)

\* printImpatiently calling f once to print and once more to return
PrintImpatientlyTwice(n, init, stp, b) ==
    LET d == BePatient(n, init, stp, b)
    IN [calls |-> <<[op |-> "patience", rune |-> b, bytes |-> <<>>, dur |-> d, err |-> "nil"],
                    [op |-> "patience", rune |-> b, bytes |-> <<>>, dur |-> d, err |-> "nil"]>>,
        records |-> <<[op |-> "debug", rune |-> b, bytes |-> <<>>, dur |-> d, err |-> "nil"]>>,
        ret |-> d]

\* the function printImpatiently(os.Stdout, f) returns, applied to the rune b,
\* where f is bePatient(n, init, stp): the calls of f it makes, the records
\* it prints and the duration it returns
PrintImpatiently(n, init, stp, b) ==
    LET d == BePatient(n, init, stp, b)
    IN [calls |-> <<[op |-> "patience", rune |-> b, bytes |-> <<>>, dur |-> d, err |-> "nil"]>>,
        records |-> <<[op |-> "debug", rune |-> b, bytes |-> <<>>, dur |-> d, err |-> "nil"]>>,
        ret |-> d]

\* the delay function of the run, applied to the rune b: [calls, records, ret]
Patience(b) ==
    IF debug THEN PrintImpatiently(bits, initial, step, b)
    ELSE LET d == BePatient(bits, initial, step, b)
         IN [calls |-> <<[op |-> "patience", rune |-> b, bytes |-> <<>>, dur |-> d, err |-> "nil"]>>,
             records |-> <<>>,
             ret |-> d]

Ev(o, c, b, d, e) == [op |-> o, rune |-> c, bytes |-> b, dur |-> d, err |-> e]

(***************************************************************************)
(* Inputs.                                                                 *)
(***************************************************************************)
\* byte strings the inputs are concatenated from: the encodings of U+0041,
\* U+00E9, U+20AC and U+1F600, a byte that starts no encoding, the first two
\* bytes of a three-byte encoding, and an encoded surrogate
Pieces == { <<65>>, <<195, 169>>, <<226, 130, 172>>, <<240, 159, 152, 128>>,
            <<255>>, <<226, 130>>, <<237, 160, 128>> }

\* the inputs: the concatenations of pieces that are at most MaxLen bytes long
Inputs ==
    { in \in UNION { { Flatten(ps) : ps \in [1..n -> Pieces] } : n \in 0..MaxLen } :
        Len(in) <= MaxLen }

\* the readers: one that delivers a byte per Read, and one that fills the
\* buffer of the scanner, which starts with startBufSize bytes
startBufSize == 4096
Chunks == {1, startBufSize}

\* <<bits, base, step, debug>> of the program runs whose delay function can
\* be constructed
Configs == { <<3, 1000, 100, FALSE>>, <<3, 1000, 100, TRUE>>, <<7, 0, 1, FALSE>> }

\* <<bits, base, step, debug>> of the program runs started with too many bits
BadConfigs == { <<n, 1000, 100, d>> : n \in BitsLimit..MaxBits, d \in BOOLEAN }

\* <<dst, debug>> of the direct calls of copyRunesWithPatience
Calls == { <<"bufio.Writer", FALSE>>, <<"http.ResponseWriter", FALSE>>,
           <<"ioutil.Discard", FALSE>>, <<"bufio.Writer", TRUE>> }

Init ==
    /\ entry \in {"main", "copy"}
    /\ IF entry = "main"
       THEN /\ \E c \in Configs \cup BadConfigs :
                  bits = c[1] /\ initial = c[2] /\ step = c[3] /\ debug = c[4]
            /\ dst = "os.File"
       ELSE /\ bits = 3 /\ initial = 1000 /\ step = 100
            /\ \E c \in Calls : dst = c[1] /\ debug = c[2]
    /\ input \in Inputs
    /\ chunk \in Chunks
    /\ rd = 0
    /\ okBytes = 0
    /\ failedReads = 0
    /\ flushFailed = FALSE
    /\ buf = <<>>
    /\ serr = "nil"
    /\ flush = "unbound"
    /\ bs = <<>>
    /\ r = 0
    /\ size = 0
    /\ delay = 0
    /\ pc = IF entry = "main" THEN "main" ELSE "makeFlush"
    /\ events = <<>>
    /\ result = "none"
    /\ exit = -1

(***************************************************************************)
(* main (main.go:28-38).                                                   *)
(***************************************************************************)
\* flag.Parse, bePatient, the debug switch; ends in the call of
\* copyRunesWithPatience or in the panic of bePatient
Main ==
    /\ pc = "main"
    /\ IF BePatientPanics(bits)
       THEN /\ pc' = "panic"
            /\ exit' = PanicStatus
            /\ dst' = dst
       ELSE /\ pc' = "makeFlush"
            /\ exit' = exit
            /\ dst' = IF debug THEN "ioutil.Discard" ELSE "os.File"
    /\ UNCHANGED <<entry, bits, initial, step, debug, input, chunk, rd, okBytes,
                   failedReads, flushFailed, buf, serr,
                   flush, bs, r, size, delay, events, result>>

\* main drops the value copyRunesWithPatience returns and returns itself
MainReturn ==
    /\ pc = "returned"
    /\ entry = "main"
    /\ pc' = "exited"
    /\ exit' = 0
    /\ UNCHANGED <<entry, bits, initial, step, debug, dst, input, chunk, rd, okBytes,
                   failedReads, flushFailed, buf,
                   serr, flush, bs, r, size, delay, events, result>>

(***************************************************************************)
(* copyRunesWithPatience (main.go:65-88).                                  *)
(***************************************************************************)
\* flush := makeFlush(dst); the scanner is created
BindFlush ==
    /\ pc = "makeFlush"
    /\ flush' = MakeFlush(dst)
    /\ pc' = "scan"
    /\ UNCHANGED <<entry, bits, initial, step, debug, dst, input, chunk, rd, okBytes,
                   failedReads, flushFailed, buf,
                   serr, bs, r, size, delay, events, result, exit>>

\* scanner.Scan(): the buffered bytes hold a token
ScanToken ==
    /\ pc = "scan"
    /\ ~(buf = <<>> /\ serr = "nil")
    /\ LET s == ScanRunes(buf, serr # "nil") IN
         /\ s.token # <<>>
         /\ buf' = Drop(buf, s.advance)
         /\ bs' = s.token
    /\ pc' = "loop"
    /\ UNCHANGED <<entry, bits, initial, step, debug, dst, input, chunk, rd, okBytes,
                   failedReads, flushFailed, serr, flush, r, size, delay, events,
                   result, exit>>

\* scanner.Scan(): no token in the buffered bytes and no error yet, so one
\* Read of src.  A Read delivers the next chunk of the remaining bytes; the read that
\* delivers the last of them may return the final error (io.EOF or another
\* error) with them, and a read after that returns no byte and the final error.  os.Stdin returns
\* its error with no byte.  No read returns no byte and a nil error.
ScanRead ==
    /\ pc = "scan"
    /\ serr = "nil"
    /\ IF buf = <<>> THEN TRUE ELSE ScanRunes(buf, FALSE).token = <<>>
    /\ \E e \in {"nil", "EOF", "ReadErr"} :
         LET n == Min(chunk, Len(input) - rd) IN
         /\ e # "nil" => n = Len(input) - rd
         /\ e # "nil" /\ n > 0 => entry = "copy"
         /\ n = 0 => e # "nil"
         /\ buf' = buf \o SubSeq(input, rd + 1, rd + n)
         /\ rd' = rd + n
         /\ serr' = e
         /\ okBytes' = IF e = "nil" THEN okBytes + n ELSE okBytes
         /\ failedReads' = IF e = "nil" THEN failedReads ELSE failedReads + 1
    /\ UNCHANGED <<entry, bits, initial, step, debug, dst, input, chunk, flushFailed,
                   flush, bs, r, size, delay, pc, events, result, exit>>

\* nil returned in the place of scanner.Err()
ScanStopReturningNil ==
    /\ pc = "scan"
    /\ serr # "nil"
    /\ ScanRunes(buf, TRUE).token = <<>>
    /\ result' = "nil"
    /\ pc' = "returned"
    /\ UNCHANGED <<entry, bits, initial, step, debug, dst, input, chunk, rd, okBytes,
                   failedReads, flushFailed, buf, serr, flush, bs, r, size, delay,
                   events, exit>>

\* scanner.Scan() returns false: the reader has ended and the buffered bytes
\* are used up; return scanner.Err(), which is nil after io.EOF
ScanStop ==
    /\ pc = "scan"
    /\ serr # "nil"
    /\ ScanRunes(buf, TRUE).token = <<>>
    /\ result' = IF serr = "EOF" THEN "nil" ELSE serr
    /\ pc' = "returned"
    /\ UNCHANGED <<entry, bits, initial, step, debug, dst, input, chunk, rd, okBytes,
                   failedReads, flushFailed, buf,
                   serr, flush, bs, r, size, delay, events, exit>>

\* len(bs) > 0: r, size := utf8.DecodeRune(bs); delay := patience(r)
Decode ==
    /\ pc = "loop"
    /\ Len(bs) > 0
    /\ LET d == DecodeRune(bs)
           p == Patience(d[1])
       IN /\ r' = d[1]
          /\ size' = d[2]
          /\ delay' = p.ret
          /\ events' = events \o p.calls \o p.records
    /\ pc' = "write"
    /\ UNCHANGED <<entry, bits, initial, step, debug, dst, input, chunk, rd, okBytes,
                   failedReads, flushFailed, buf,
                   serr, flush, bs, result, exit>>

\* Write with the error of dst.Write dropped
WriteIgnoringError ==
    /\ pc = "write"
    /\ \E e \in (IF WriteCanFail(dst) THEN {"nil", "WriteErr"} ELSE {"nil"}) :
         events' = Append(events, Ev("write", r, Take(bs, size), 0, e))
    /\ pc' = "flush"
    /\ UNCHANGED <<entry, bits, initial, step, debug, dst, input, chunk, rd, okBytes,
                   failedReads, flushFailed, buf, serr, flush, bs, r, size, delay,
                   result, exit>>

\* dst.Write(bs[:size]); a write error is returned at once
Write ==
    /\ pc = "write"
    /\ \E e \in (IF WriteCanFail(dst) THEN {"nil", "WriteErr"} ELSE {"nil"}) :
         /\ events' = Append(events, Ev("write", r, Take(bs, size), 0, e))
         /\ IF e = "nil"
            THEN pc' = "flush" /\ result' = result
            ELSE pc' = "returned" /\ result' = e
    /\ UNCHANGED <<entry, bits, initial, step, debug, dst, input, chunk, rd, okBytes,
                   failedReads, flushFailed, buf,
                   serr, flush, bs, r, size, delay, exit>>

\* Flush with the error of the bound action returned
FlushReturningError ==
    /\ pc = "flush"
    /\ \E e \in FlushOutcomes(flush) :
         /\ flushFailed' = (flushFailed \/ e # "nil")
         /\ IF e = "nil"
            THEN pc' = "sleep" /\ result' = result
            ELSE pc' = "returned" /\ result' = e
    /\ events' = Append(events, Ev("flush", r, <<>>, 0, "nil"))
    /\ UNCHANGED <<entry, bits, initial, step, debug, dst, input, chunk, rd, okBytes,
                   failedReads, buf, serr, flush, bs, r, size, delay, exit>>

\* flush(): the bound action runs and what it returns is dropped
Flush ==
    /\ pc = "flush"
    /\ \E e \in FlushOutcomes(flush) :
         flushFailed' = (flushFailed \/ e # "nil")
    /\ events' = Append(events, Ev("flush", r, <<>>, 0, "nil"))
    /\ pc' = "sleep"
    /\ UNCHANGED <<entry, bits, initial, step, debug, dst, input, chunk, rd, okBytes,
                   failedReads, buf, serr, flush, bs, r, size, delay, result, exit>>

\* the sleep left out
SleepSkipped ==
    /\ pc = "sleep"
    /\ bs' = Drop(bs, size)
    /\ pc' = "loop"
    /\ UNCHANGED <<entry, bits, initial, step, debug, dst, input, chunk, rd, okBytes,
                   failedReads, flushFailed, buf, serr, flush, r, size, delay, events,
                   result, exit>>

\* time.Sleep(delay); bs = bs[size:]
Sleep ==
    /\ pc = "sleep"
    /\ events' = Append(events, Ev("sleep", r, <<>>, delay, "nil"))
    /\ bs' = Drop(bs, size)
    /\ pc' = "loop"
    /\ UNCHANGED <<entry, bits, initial, step, debug, dst, input, chunk, rd, okBytes,
                   failedReads, flushFailed, buf,
                   serr, flush, r, size, delay, result, exit>>

\* len(bs) = 0: back to scanner.Scan()
NextToken ==
    /\ pc = "loop"
    /\ Len(bs) = 0
    /\ pc' = "scan"
    /\ UNCHANGED <<entry, bits, initial, step, debug, dst, input, chunk, rd, okBytes,
                   failedReads, flushFailed, buf,
                   serr, flush, bs, r, size, delay, events, result, exit>>

Next ==
    \/ Main
    \/ MainReturn
    \/ BindFlush
    \/ ScanToken
    \/ ScanRead
    \/ ScanStop
    \/ Decode
    \/ Write
    \/ Flush
    \/ Sleep
    \/ NextToken

Spec == Init /\ [][Next]_vars

\* the run is over: the process has exited, or the called function has returned
Finished == pc \in {"exited", "panic"} \/ (entry = "copy" /\ pc = "returned")

(***************************************************************************)
(* The delay function on its own: bePatient is called with any bit width,  *)
(* and the function it returns, wrapped by printImpatiently or not, is     *)
(* applied to code points.                                                 *)
(***************************************************************************)
\* code points the delay function is applied to: U+0000, U+0041, U+007F,
\* U+0080, U+00E9, U+00FF, U+0100, U+017F, U+20AC, U+FFFD, U+1F600, U+10FFFF
CodePoints == {0, 65, 127, 128, 233, 255, 256, 383, 8364, 65533, 128512, 1114111}

\* base and step
DelayParams == { <<1000, 100>>, <<0, 1>>, <<5, 0>>, <<-7, 3>>, <<1000, -2>> }

InitDelay ==
    /\ entry = "patience"
    /\ bits \in 0..MaxBits
    /\ \E p \in DelayParams : initial = p[1] /\ step = p[2]
    /\ debug \in BOOLEAN
    /\ dst = "os.File"
    /\ input = <<>>
    /\ chunk = 1
    /\ rd = 0
    /\ okBytes = 0
    /\ failedReads = 0
    /\ flushFailed = FALSE
    /\ buf = <<>>
    /\ serr = "nil"
    /\ flush = "unbound"
    /\ bs = <<>>
    /\ r = 0
    /\ size = 0
    /\ delay = 0
    /\ pc = "bePatient"
    /\ events = <<>>
    /\ result = "none"
    /\ exit = -1

\* bePatient(bits, initial, step): panics, or returns the delay function
Construct ==
    /\ pc = "bePatient"
    /\ pc' = IF BePatientPanics(bits) THEN "panic" ELSE "ready"
    /\ UNCHANGED <<entry, bits, initial, step, debug, dst, input, chunk, rd, okBytes,
                   failedReads, flushFailed, buf, serr, flush, bs, r, size, delay,
                   events, result, exit>>

\* one call of the delay function
Call(c) ==
    /\ pc = "ready"
    /\ Len(SelectSeq(events, LAMBDA e : e.op = "patience")) < MaxCalls
    /\ LET p == Patience(c)
       IN /\ r' = c
          /\ delay' = p.ret
          /\ events' = events \o p.calls \o p.records
    /\ UNCHANGED <<entry, bits, initial, step, debug, dst, input, chunk, rd, okBytes,
                   failedReads, flushFailed, buf, serr, flush, bs, size, pc, result,
                   exit>>

NextDelay ==
    \/ Construct
    \/ \E c \in CodePoints : Call(c)

SpecDelay == InitDelay /\ [][NextDelay]_vars

(***************************************************************************)
(* Definitions the properties are stated with.                             *)
(***************************************************************************)
\* UTF-8 by its definition (RFC 3629): the encoding of the scalar value c
Encode(c) ==
    IF c < 128 THEN <<c>>
    ELSE IF c < 2048 THEN <<192 + (c \div 64), 128 + (c % 64)>>
    ELSE IF c < 65536
         THEN <<224 + (c \div 4096), 128 + ((c \div 64) % 64), 128 + (c % 64)>>
    ELSE <<240 + (c \div 262144), 128 + ((c \div 4096) % 64),
           128 + ((c \div 64) % 64), 128 + (c % 64)>>

IsScalar(c) == c >= 0 /\ c <= 1114111 /\ ~(c >= 55296 /\ c <= 57343)

\* the value the payload bits of the byte string b would stand for
ValueOf(b) ==
    CASE Len(b) = 1 -> b[1]
      [] Len(b) = 2 -> (b[1] - 192) * 64 + (b[2] - 128)
      [] Len(b) = 3 -> (b[1] - 224) * 4096 + (b[2] - 128) * 64 + (b[3] - 128)
      [] OTHER -> (b[1] - 240) * 262144 + (b[2] - 128) * 4096
                  + (b[3] - 128) * 64 + (b[4] - 128)

\* b is the complete encoding of one character
IsEncoding(b) ==
    /\ Len(b) >= 1
    /\ Len(b) <= 4
    /\ IsScalar(ValueOf(b))
    /\ Encode(ValueOf(b)) = b

\* the length of an encoding by its first byte
LengthByFirst(b) == IF b < 192 THEN 1 ELSE IF b < 224 THEN 2 ELSE IF b < 240 THEN 3 ELSE 4

\* the length of the character data starts with, 0 when it starts with none
CharLen(data) ==
    IF /\ LengthByFirst(data[1]) <= Len(data)
       /\ IsEncoding(Take(data, LengthByFirst(data[1])))
    THEN LengthByFirst(data[1])
    ELSE 0

\* data cut into its characters; a malformed rest is left as one empty entry
RECURSIVE Chars(_)
Chars(data) ==
    IF data = <<>> THEN <<>>
    ELSE IF CharLen(data) = 0 THEN << <<>> >>
    ELSE <<Take(data, CharLen(data))>> \o Chars(Drop(data, CharLen(data)))

ValidChars(cs) == \A i \in 1..Len(cs) : cs[i] # <<>>
ValidInput(data) == ValidChars(Chars(data))

\* the runes of data, decoded one after the other, a malformed byte as
\* U+FFFD of width one
RECURSIVE Runes(_)
Runes(data) ==
    IF data = <<>> THEN <<>>
    ELSE <<DecodeRune(data)[1]>> \o Runes(Drop(data, DecodeRune(data)[2]))

OpEvents(o) == SelectSeq(events, LAMBDA e : e.op = o)
WriteEvents == OpEvents("write")
Written == [i \in 1..Len(WriteEvents) |-> WriteEvents[i].bytes]
WrittenRunes == [i \in 1..Len(WriteEvents) |-> WriteEvents[i].rune]
WriteFailed == \E i \in 1..Len(events) : events[i].op = "write" /\ events[i].err # "nil"
Returned == pc \in {"returned", "exited"}

(***************************************************************************)
(* Properties.                                                             *)
(***************************************************************************)
\* C1: when the input is a sequence of validly encoded characters and no
\* write fails, the writes made so far are the complete encodings of the
\* first characters of the input, one write per character and in order, and
\* once the copy has returned there is one write for every character and
\* the writes concatenated are the input.
C1_OneWritePerCharacter ==
    LET cs == Chars(input)
        w == Written
    IN (entry # "patience" /\ ~WriteFailed /\ ValidChars(cs)) =>
          /\ Len(w) <= Len(cs)
          /\ \A i \in 1..Len(w) : w[i] = cs[i]
          /\ Returned => (w = cs /\ Flatten(w) = input)

\* a copy that has returned after writing a three-byte character and then a
\* one-byte character, each in one write
C1_Witness ==
    /\ Returned
    /\ ~WriteFailed
    /\ ValidInput(input)
    /\ Len(Written) = 2
    /\ Len(Written[1]) = 3
    /\ Len(Written[2]) = 1

\* C2: a write that fails is the last operation of the copy: no flush, no
\* sleep, no further delay computation or write follows it, and the copy
\* has returned the error of that write.
C2_WriteFailureStops ==
    \A i \in 1..Len(events) :
        (events[i].op = "write" /\ events[i].err # "nil") =>
            /\ i = Len(events)
            /\ Returned
            /\ result = events[i].err
            /\ Len(OpEvents("flush")) = Len(WriteEvents) - 1
            /\ Len(OpEvents("sleep")) = Len(WriteEvents) - 1

\* the write of the second character has failed
C2_Witness ==
    /\ WriteFailed
    /\ Len(WriteEvents) = 2
    /\ rd < Len(input)

\* C9 as claimed: with no write failure the bytes written, concatenated, are
\* the input, malformed bytes included.
C9_OutputEqualsInput ==
    (entry # "patience" /\ Returned /\ ~WriteFailed) => Flatten(Written) = input

\* C3 as claimed: the delay function is invoked for a character only after
\* the write and the flush of that character.
C3_DelayAfterWriteAndFlush ==
    \A i \in 1..Len(events) :
        events[i].op = "patience" =>
            /\ i >= 3
            /\ events[i - 1].op = "flush" /\ events[i - 1].rune = events[i].rune
            /\ events[i - 2].op = "write" /\ events[i - 2].rune = events[i].rune

\* C3 as amended: for every character the delay function is invoked first
\* (the debug record, if any, is printed by that call), then the character
\* is written, then the output is flushed, then the thread sleeps for the
\* duration the delay function returned; the next character starts only
\* after that sleep, and nothing follows a write that failed.
C3_DelayWriteFlushSleep ==
    entry # "patience" =>
    \A i \in 1..Len(events) :
        /\ i = 1 => events[i].op = "patience"
        /\ i < Len(events) =>
             CASE events[i].op = "patience" ->
                    /\ events[i + 1].op = (IF debug THEN "debug" ELSE "write")
                    /\ events[i + 1].rune = events[i].rune
               [] events[i].op = "debug" ->
                    /\ events[i + 1].op = "write"
                    /\ events[i + 1].rune = events[i].rune
               [] events[i].op = "write" ->
                    /\ events[i].err = "nil"
                    /\ events[i + 1].op = "flush"
                    /\ events[i + 1].rune = events[i].rune
               [] events[i].op = "flush" ->
                    /\ events[i + 1].op = "sleep"
                    /\ events[i + 1].rune = events[i].rune
               [] OTHER -> events[i + 1].op = "patience"
        /\ events[i].op = "sleep" =>
             /\ i > (IF debug THEN 4 ELSE 3)
             /\ events[i - (IF debug THEN 4 ELSE 3)].op = "patience"
             /\ events[i - (IF debug THEN 4 ELSE 3)].dur = events[i].dur

\* two characters have been processed to the end with the debug wrapper
C3_Witness ==
    /\ debug
    /\ Len(OpEvents("sleep")) = 2
    /\ Len(events) = 10
    /\ events[1].op = "patience"
    /\ events[2].op = "debug"
    /\ events[3].op = "write"

\* C4: for a bit width of 0..7 every call of the function bePatient returns
\* gives base + step * (c mod 2^bits), also for code points above 255, so
\* two calls whose code points agree in the low bits give the same duration.
C4_DelayFormula ==
    (entry = "patience" /\ bits <= 7) =>
        /\ \A i \in 1..Len(events) :
             events[i].op = "patience" =>
                 events[i].dur = initial + step * (events[i].rune % (2 ^ bits))
        /\ \A i, j \in 1..Len(events) :
             (/\ events[i].op = "patience"
              /\ events[j].op = "patience"
              /\ events[i].rune % (2 ^ bits) = events[j].rune % (2 ^ bits))
             => events[i].dur = events[j].dur

\* the function built with 7 bits has been called for U+20AC and U+1F600,
\* and with step 100 has returned 1000 + 100 * 44 for the first
C4_Witness ==
    /\ entry = "patience"
    /\ bits = 7
    /\ step = 100
    /\ Len(OpEvents("patience")) = 2
    /\ OpEvents("patience")[1].rune = 8364
    /\ OpEvents("patience")[1].dur = 5400
    /\ OpEvents("patience")[2].rune = 128512

\* C5: a program run started with a bit width of 8 or more panics in
\* bePatient before anything is read, written, flushed or slept and ends
\* with a non-zero status; with a bit width of 0..7 bePatient never panics.
C5_TooManyBitsPanics ==
    entry = "main" =>
        /\ (bits >= 8 /\ pc # "main") =>
              /\ pc = "panic"
              /\ exit > 0
              /\ rd = 0
              /\ failedReads = 0
              /\ events = <<>>
              /\ flush = "unbound"
        /\ bits <= 7 => (pc # "panic" /\ exit <= 0)

\* a run with 8 bits and a non-empty input has panicked
C5_Witness ==
    /\ entry = "main"
    /\ bits = 8
    /\ pc = "panic"
    /\ input # <<>>

\* C6: with the debug wrapper every call of the delay function is one call
\* of the wrapped function followed by one debug record of the same
\* character and duration, and the duration slept for a character is the
\* one the unwrapped function gives for it, with or without the wrapper.
C6_DebugWrapperTransparent ==
    /\ \A i \in 1..Len(events) :
         events[i].op = "debug" =>
             /\ debug
             /\ i > 1
             /\ events[i - 1].op = "patience"
             /\ events[i - 1].rune = events[i].rune
             /\ events[i - 1].dur = events[i].dur
    /\ \A i \in 1..Len(events) :
         (debug /\ events[i].op = "patience") =>
             /\ i < Len(events)
             /\ events[i + 1].op = "debug"
             /\ i > 1 => events[i - 1].op # "patience"
    /\ bits <= 7 =>
         \A i \in 1..Len(events) :
             events[i].op = "sleep" =>
                 events[i].dur = initial + step * (events[i].rune % (2 ^ bits))
    /\ (entry # "patience" /\ Returned /\ ~WriteFailed) =>
         [i \in 1..Len(OpEvents("sleep")) |-> OpEvents("sleep")[i].rune] = Runes(input)

\* a debug run of the program has slept for U+20AC and for U+0041, for
\* different durations
C6_Witness ==
    /\ entry = "main"
    /\ debug
    /\ pc = "exited"
    /\ Len(OpEvents("debug")) = 2
    /\ OpEvents("sleep")[1].rune = 8364
    /\ OpEvents("sleep")[2].rune = 65
    /\ OpEvents("sleep")[1].dur # OpEvents("sleep")[2].dur

\* C7 as claimed: the process exits with status zero only when the copy
\* reported no error, and with a non-zero status when it reported one or
\* when the bit width is out of range.
C7_ErrorsReachExitStatus ==
    /\ pc = "exited" => ((exit = 0) <=> (result = "nil"))
    /\ pc = "panic" => exit > 0

\* C8 as claimed: after a failed read the characters written are those
\* decoded from the bytes delivered before the failing read.
C8_WrittenBeforeFailingRead ==
    (entry # "patience" /\ Returned /\ ~WriteFailed /\ serr = "ReadErr") =>
        WrittenRunes = Runes(Take(input, okBytes))

\* C8 as amended: the copy always comes to an end; no read follows a read
\* that returned an error; when no write fails the copy returns nil after
\* end-of-input and the read error after a failed read, and the characters
\* written are those decoded from every byte delivered, the bytes delivered
\* by the failing read itself included.
C8_ReadErrorSurfaced ==
    entry # "patience" =>
        /\ failedReads <= 1
        /\ Finished \/ ENABLED Next
        /\ (Returned /\ ~WriteFailed) =>
              /\ failedReads = 1
              /\ result = (IF serr = "EOF" THEN "nil" ELSE "ReadErr")
              /\ WrittenRunes = Runes(Take(input, rd))

\* a copy has returned the read error of a read that delivered bytes too
C8_Witness ==
    /\ Returned
    /\ result = "ReadErr"
    /\ okBytes < rd
    /\ Len(WriteEvents) = 2

\* C10: the flush action is the one makeFlush chooses for the writer, bound
\* before the first character and never rebound; every successful write is
\* followed by one call of it and it is called at no other time; an error
\* of Flush or Sync is never the result of the copy, and a copy in which a
\* flush failed still processes every character and returns what the reader
\* ended with.
C10_FlushOncePerWriteErrorsIgnored ==
    entry # "patience" =>
        /\ IF pc \in {"main", "makeFlush", "panic"}
           THEN flush = "unbound" /\ events = <<>>
           ELSE flush = (CASE dst = "os.File" -> "Sync"
                           [] dst = "bufio.Writer" -> "FlushErr"
                           [] dst = "http.ResponseWriter" -> "Flush"
                           [] OTHER -> "noop")
        /\ \A i \in 1..Len(events) :
             /\ (events[i].op = "write" /\ events[i].err = "nil" /\ i < Len(events))
                   => events[i + 1].op = "flush"
             /\ (events[i].op = "write" /\ events[i].err = "nil" /\ i = Len(events))
                   => pc = "flush"
             /\ events[i].op = "flush" =>
                   /\ i > 1
                   /\ events[i - 1].op = "write"
                   /\ events[i - 1].err = "nil"
        /\ result \in {"none", "nil", "WriteErr", "ReadErr"}
        /\ (flushFailed /\ Returned /\ ~WriteFailed) =>
              /\ result = (IF serr = "EOF" THEN "nil" ELSE "ReadErr")
              /\ WrittenRunes = Runes(input)
              /\ Len(OpEvents("sleep")) = Len(WriteEvents)

\* a copy in which a flush failed has written two characters and returned nil
C10_Witness ==
    /\ flushFailed
    /\ Returned
    /\ result = "nil"
    /\ Len(WriteEvents) = 2
    /\ Len(OpEvents("flush")) = 2

====
